---- MODULE Spec2Model ----
(***************************************************************************)
(* Retrieval engine of Terminal-LLM: the VectorStore of                    *)
(* src/knowledge/vectorstore.py (FAISS IndexFlatL2 plus the parallel chunk *)
(* list, with its snapshot directory), the chunker of                      *)
(* src/knowledge/document.py (DocumentProcessor.split_text), and the chat  *)
(* process that uses them: /load and /clearknowledge of                    *)
(* src/core/commands/knowledge_commands.py, get_response of                *)
(* src/core/chat.py.                                                       *)
(***************************************************************************)
EXTENDS Integers, Sequences, FiniteSets, TLC

(***************************************************************************)
(* Bounds of the model.                                                    *)
(***************************************************************************)
\* length of an embedding vector produced by the model (384 in the program)
ModelDim == 2
\* largest number of chunks the store is driven to
MaxChunks == 2
\* largest batch handed to add_texts
MaxBatch == 2
\* largest top_k handed to search
MaxK == 2
\* longest token sequence handed to split_text
MaxTokens == 4
\* largest chunk_size / chunk_overlap a DocumentProcessor is built with
MaxChunkSize == 3
\* fraction bits of the floating-point format the score is computed in (23 in
\* float32, 52 in float64)
MantissaBits == 1
\* largest number of store calls the event loop holds at a time
MaxTasks == 2
\* last reading of the clock, in seconds after the CacheManager was built
MaxTime == 3
\* largest ttl a CacheManager is built with
MaxTtl == 2
\* largest number of interactions the history is driven to
MaxHistory == 3
\* longest input line handed to get_command, in symbols
MaxInput == 4

(***************************************************************************)
(* Program constants.                                                      *)
(***************************************************************************)
\* DocumentProcessor.__init__ defaults
DefaultChunkSize == 1000
DefaultChunkOverlap == 200
\* CacheManager.__init__ default
DefaultTtl == 3600
\* config.MAX_HISTORY_ITEMS
MAX_HISTORY_ITEMS == 100

(***************************************************************************)
(* Values.                                                                 *)
(***************************************************************************)
\* chunk texts
Texts == {"a", "b"}
\* query texts
Queries == {"a"}
\* what a user types into the chat: the text of a chunk, and a text the model
\* embeds right next to it
Prompts == {"a", "a2"}
\* the file each text comes from (metadata.source / metadata.filename)
FileOf(t) == IF t = "a" THEN "f1" ELSE "f2"

\* TextChunk(content, metadata)
TextChunk(c, m) == [content |-> c, metadata |-> m]

\* metadata mapping built by process_file for the path docs/<f>: the path as
\* its components, and os.path.basename of it
FileMetadata(f) == [source |-> <<"docs", f>>, filename |-> f]

\* every chunk the model hands to the store
ChunkValues == {TextChunk(c, FileMetadata(FileOf(c))) : c \in Texts}

\* all sequences over S of length lo..hi
SeqsOf(S, lo, hi) == UNION {[1..n -> S] : n \in lo..hi}

\* the dimensions a VectorStore can be constructed with
Dimensions == {ModelDim, ModelDim + 1}

\* the number 1.0 in the unit distances are counted in: half the spacing of
\* the floating-point numbers between 1 and 2
One == 2 ^ (MantissaBits + 1)

\* SentenceTransformer.encode on one text: a fixed vector of ModelDim numbers
\* (fixed weights, so the same text always gives the same vector), in the unit
\* whose square is the unit of distances
Encode(t) ==
    [d \in 1..ModelDim |->
        IF d = 1 THEN (IF t = "a" THEN 0 ELSE IF t = "a2" THEN 1 ELSE 2) ELSE 0]

\* faiss.IndexFlatL2(d): an empty flat index of dimension d
IndexFlatL2(d) == [d |-> d, xb |-> <<>>]

\* index.ntotal
ntotal(ix) == Len(ix.xb)

VARIABLES
    dimension,    \* VectorStore.dimension
    index,        \* VectorStore.index: [d, xb] the stored vectors in row order
    chunks,       \* VectorStore.chunks
    embeddings,   \* VectorStore.embeddings
    _model,       \* VectorStore._model: "None" or "loaded"
    indexFile,    \* <directory>/index.faiss : [exists, valid, data]
    chunksFile,   \* <directory>/chunks.json : [exists, valid, data]
    saved,        \* the store contents at the last completed save
    whole,        \* TRUE when both files come from one completed save
    op,           \* the last call made on the store ("none": the last
                  \* handler made no call)
    arg,          \* what the last call was given
    embedded,     \* how get_embeddings ended in the last call or handler
                  \* ("none": not called)
    ret,          \* what the last call returned ("raise" for an exception)
    hits,         \* (distance, idx) pairs index.search gave the last search
    results,      \* the SearchResult list the last search built
    tokens,       \* split_text: the token sequence
    chunk_size,   \* DocumentProcessor.chunk_size
    chunk_overlap,\* DocumentProcessor.chunk_overlap
    metadata,     \* split_text: the metadata argument
    i,            \* split_text: the window start
    spans,        \* split_text: the (i, end) of every window taken
    out,          \* split_text: the local list chunks
    pc,           \* split_text: "idle", "loop" or "done"
    prev,         \* split_text: what the run before returned, when this run
                  \* was given the same text and metadata
    running,      \* the chat process is alive (no exception has left main)
    cached,       \* the embedding model's files are in the local cache
    command,      \* the input main handled last: "none", "load",
                  \* "clearknowledge" or "chat"
    path,         \* the file path the last handler was given ("": none)
    processed,    \* what process_file returned to the last handler
    outcome,      \* how the last handler ended
    events,       \* the steps the model property took in the last handler
    relevant_texts, \* get_response: the retrieved context
    tasks,        \* the event loop: the store calls in flight, by task
    current,      \* the event loop: the task that ran last (0: none yet)
    main_pc,      \* main: "prompt" (reading input), "awaiting" (a store
                  \* call) or "resumed" (the call returned to the handler)
    _cache,       \* CacheManager._cache: key |-> [value, timestamp]
    ttl,          \* CacheManager.ttl
    now,          \* what time.time() reads
    last_set,     \* key |-> [value, at] of the last set(key, value) that
                  \* went through, with no remove(key) or clear() since
    cache_op,     \* the last call made on the CacheManager ("tick": the
                  \* clock moved since)
    cache_key,    \* the key it was given
    cache_value,  \* the value it was given (None: it takes no value)
    cache_ret,    \* what it returned or raised
    history,      \* ChatHistory.history
    history_file, \* the interactions in the history file
    hist_op,      \* the last call made on the ChatHistory
    hist_n,       \* the n it was given (0: it takes none)
    hist_ret,     \* the list get_recent_history returned last
    fac_input,    \* the line handed to get_command / handle_user_input
    fac_op,       \* the last call: "get_command" or "handle_user_input"
    fac_ret,      \* what get_command returned or raised
    fac_handled   \* what handle_user_input did: "None" (returned None),
                  \* "execute" (awaited command.execute), "raise", or "none"

storeVars == <<dimension, index, chunks, embeddings, _model, indexFile,
               chunksFile, saved, whole, op, arg, embedded, ret, hits, results>>
splitVars == <<tokens, chunk_size, chunk_overlap, metadata, i, spans, out, pc, prev>>
appVars == <<running, cached, command, path, processed, outcome, events,
             relevant_texts>>
loopVars == <<tasks, current, main_pc>>
cacheVars == <<_cache, ttl, now, last_set, cache_op, cache_key, cache_value,
              cache_ret>>
historyVars == <<history, history_file, hist_op, hist_n, hist_ret>>
factoryVars == <<fac_input, fac_op, fac_ret, fac_handled>>
sideVars == <<loopVars, cacheVars, historyVars, factoryVars>>
\* what the event loop's steps leave alone besides the store and the process
loopFrame == <<splitVars, cacheVars, historyVars, factoryVars>>
\* what the CacheManager's calls leave alone
cacheFrame == <<storeVars, splitVars, appVars, loopVars, historyVars,
                factoryVars>>
\* what the ChatHistory's calls leave alone
historyFrame == <<storeVars, splitVars, appVars, loopVars, cacheVars,
                  factoryVars>>
\* what the CommandFactory's calls leave alone
factoryFrame == <<storeVars, splitVars, appVars, loopVars, cacheVars,
                  historyVars>>
vars == <<storeVars, splitVars, appVars, sideVars>>

(***************************************************************************)
(* Python and numpy helpers.                                               *)
(***************************************************************************)
\* min(a, b)
Min(a, b) == IF a <= b THEN a ELSE b

\* seq[idx] for a Python index: 0-based, a negative idx counts from the end
PyIndex(seq, idx) == IF idx >= 0 THEN seq[idx + 1] ELSE seq[Len(seq) + idx + 1]

\* a slice bound as Python reads it: a negative bound counts from the end, and
\* the result is clamped to 0..n
PyBound(b, n) == IF b < 0 THEN (IF n + b < 0 THEN 0 ELSE n + b) ELSE Min(b, n)

\* seq[lo:hi]
PySlice(seq, lo, hi) ==
    LET l == PyBound(lo, Len(seq))
        h == PyBound(hi, Len(seq))
    IN  IF l >= h THEN <<>> ELSE SubSeq(seq, l + 1, h)

\* the sum of f[1..n]
RECURSIVE SumTo(_, _)
SumTo(f, n) == IF n = 0 THEN 0 ELSE f[n] + SumTo(f, n - 1)

\* the rows of a sequence of vectors laid out one after the other
RECURSIVE Flatten(_)
Flatten(rows) == IF rows = <<>> THEN <<>> ELSE Head(rows) \o Flatten(Tail(rows))

(***************************************************************************)
(* FAISS IndexFlatL2.                                                      *)
(***************************************************************************)
\* squared Euclidean distance of two vectors of the same length
L2sqr(x, y) == SumTo([d \in 1..Len(x) |-> (x[d] - y[d]) * (x[d] - y[d])], Len(x))

\* the distance FAISS reports with the missing-hit label -1 (the largest float):
\* above every distance two encoded texts can have
NoHitDistance == 16 * ModelDim

\* the label FAISS reports when the index holds fewer than k vectors
NoHit == 0 - 1

\* IndexFlatL2.search(x, k) for k >= 1: the k nearest rows as (distance, label)
\* pairs, labels 0-based, nearest first, equal distances by label, padded with
\* (NoHitDistance, NoHit) when the index holds fewer than k rows
IndexSearch(ix, x, k) ==
    LET n == ntotal(ix)
        dist(r) == L2sqr(ix.xb[r], x)
        before(a, b) == dist(a) < dist(b) \/ (dist(a) = dist(b) /\ a < b)
        rank(r) == Cardinality({a \in 1..n : before(a, r)}) + 1
        row(p) == CHOOSE r \in 1..n : rank(r) = p
    IN  [p \in 1..k |-> IF p <= n THEN <<dist(row(p)), row(p) - 1>>
                                  ELSE <<NoHitDistance, NoHit>>]

\* index.add(vectors): the rows appended in order
IndexAdd(ix, vectors) == [ix EXCEPT !.xb = @ \o vectors]

\* faiss.write_index: the header (d, ntotal) and the rows as one flat array
write_index(ix) == [d |-> ix.d, ntotal |-> ntotal(ix), codes |-> Flatten(ix.xb)]

\* read_index leaving out the last row
read_index_short(file) ==
    [d |-> file.d,
     xb |-> [r \in 1..(file.ntotal - 1) |->
                SubSeq(file.codes, (r - 1) * file.d + 1, r * file.d)]]

\* faiss.read_index on a whole file: the rows cut back out of the flat array
read_index(file) ==
    [d |-> file.d,
     xb |-> [r \in 1..file.ntotal |->
                SubSeq(file.codes, (r - 1) * file.d + 1, r * file.d)]]

(***************************************************************************)
(* chunks.json.                                                            *)
(***************************************************************************)
\* asdict(chunk) as json.dump writes it: an object is its (key, value) pairs
asdict(chunk) ==
    << <<"content", chunk.content>>,
       <<"metadata", << <<"source", chunk.metadata.source>>,
                        <<"filename", chunk.metadata.filename>> >> >> >>

\* the value json.load gives for a key of an object
JsonGet(obj, key) == obj[CHOOSE j \in 1..Len(obj) : obj[j][1] = key][2]

\* TextChunk(**data) for an object read back by json.load
FromJson(obj) ==
    TextChunk(JsonGet(obj, "content"),
              [source |-> JsonGet(JsonGet(obj, "metadata"), "source"),
               filename |-> JsonGet(JsonGet(obj, "metadata"), "filename")])

\* DumpChunks writing the records newest first
DumpChunksNewestFirst(chs) == [j \in 1..Len(chs) |-> asdict(chs[Len(chs) + 1 - j])]

\* [asdict(chunk) for chunk in self.chunks]
DumpChunks(chs) == [j \in 1..Len(chs) |-> asdict(chs[j])]

\* [TextChunk(**data) for data in chunks_data]
LoadChunks(data) == [j \in 1..Len(data) |-> FromJson(data[j])]

(***************************************************************************)
(* Files of the snapshot directory.                                        *)
(***************************************************************************)
\* a path that does not exist
Absent(empty) == [exists |-> FALSE, valid |-> FALSE, data |-> empty]

\* a file whose writer was stopped before it finished: truncated, unreadable
Truncated(empty) == [exists |-> TRUE, valid |-> FALSE, data |-> empty]

\* a file written to its end
Written(data) == [exists |-> TRUE, valid |-> TRUE, data |-> data]

\* nothing written of an index file / of a chunk-record file
NoIndexData == write_index(IndexFlatL2(0))
NoChunkData == <<>>

(***************************************************************************)
(* VectorStore.                                                            *)
(***************************************************************************)
\* what the last call was given; the fields a call does not take stay empty
Args(batch, query, top_k) == [chunks |-> batch, query |-> query, top_k |-> top_k]
NoArgs == Args(<<>>, "", 0)

\* the ways self.model / model.encode can end inside get_embeddings:
\*   "ok"          the model is there (or loads) and encode returns
\*   "load_fail"   SentenceTransformer(...) raises, _model stays None
\*   "device_fail" _model is assigned, then .to(device) raises
\*   "encode_fail" the model is there (or loads) and encode raises
EmbedOutcomes(m) ==
    IF m = "None" THEN {"ok", "load_fail", "device_fail", "encode_fail"}
                  ELSE {"ok", "encode_fail"}

\* self._model after the model property was read with outcome e
ModelAfter(m, e) == IF m = "None" /\ e = "load_fail" THEN "None" ELSE "loaded"

\* get_embeddings(texts): the list of vectors, or None when anything raised
get_embeddings(texts, e) ==
    IF e = "ok" THEN [none |-> FALSE, list |-> [j \in 1..Len(texts) |-> Encode(texts[j])]]
                ELSE [none |-> TRUE, list |-> <<>>]

\* vector_store = VectorStore(dimension), as every process of the program
\* constructs it
NewStore ==
    /\ UNCHANGED dimension
    /\ index' = IndexFlatL2(dimension)
    /\ chunks' = <<>>
    /\ embeddings' = <<>>
    /\ _model' = "None"
    /\ op' = "init"
    /\ arg' = NoArgs
    /\ embedded' = "none"
    /\ ret' = "None"
    /\ hits' = <<>>
    /\ results' = <<>>

\* the state the calls that are not searches leave in the search outputs
NoSearch == hits' = <<>> /\ results' = <<>>

\* add_result without the "if embeddings is None" return
add_result_unchecked(embs, ix) ==
    IF ~embs.none /\ (Len(embs.list) = 0 \/ ModelDim # ix.d) THEN "raise" ELSE "True"

\* add_result without the "assert d == self.d" of index.add
add_result_any_dimension(embs, ix) ==
    IF embs.none THEN "False"
    ELSE IF Len(embs.list) = 0 THEN "raise"
    ELSE "True"

\* how add_texts ends once get_embeddings gave embs: "False" on None; "raise"
\* when index.add fails ("n, d = x.shape" on the empty array, "assert d ==
\* self.d" on vectors of another length); "True" after the rows were added
add_result(embs, ix) ==
    IF embs.none THEN "False"
    ELSE IF Len(embs.list) = 0 \/ ModelDim # ix.d THEN "raise"
    ELSE "True"

\* add_texts(chunks) with get_embeddings ending as e
add_texts(batch, e) ==
    LET texts == [j \in 1..Len(batch) |-> batch[j].content]
        embs == get_embeddings(texts, e)
    IN  /\ op' = "add_texts"
        /\ arg' = Args(batch, "", 0)
        /\ embedded' = e
        /\ _model' = ModelAfter(_model, e)
        /\ NoSearch
        /\ UNCHANGED <<dimension, indexFile, chunksFile, saved, whole>>
        /\ ret' = add_result(embs, index)
        /\ IF ret' = "True"
             THEN /\ index' = IndexAdd(index, embs.list)
                  /\ chunks' = chunks \o batch
                  /\ embeddings' = embeddings \o embs.list
             ELSE UNCHANGED <<index, chunks, embeddings>>

\* clear()
clear ==
    /\ index' = IndexFlatL2(dimension)
    /\ chunks' = <<>>
    /\ embeddings' = <<>>
    /\ op' = "clear"
    /\ arg' = NoArgs
    /\ embedded' = "none"
    /\ ret' = "None"
    /\ NoSearch
    /\ UNCHANGED <<dimension, _model, indexFile, chunksFile, saved, whole>>

\* the binade of x >= One: the E with One * 2^E <= x < One * 2^(E + 1)
RECURSIVE Binade(_, _)
Binade(x, E) == IF x < One * 2 ^ (E + 1) THEN E ELSE Binade(x, E + 1)

\* x >= One rounded to the nearest floating-point number, ties to the even
\* mantissa: the numbers of binade E are the multiples of 2 * 2^E
RoundToFloat(x) ==
    LET s == 2 * 2 ^ Binade(x, 0)
        lower == (x \div s) * s
        rest == x - lower
    IN  IF 2 * rest < s THEN lower
        ELSE IF 2 * rest > s THEN lower + s
        ELSE IF (lower \div s) % 2 = 0 THEN lower ELSE lower + s

\* SearchResult with the distance itself as the score
SearchResultByDistance(c, m, distance) ==
    [content |-> c, metadata |-> m, score |-> [num |-> distance, den |-> One]]

\* SearchResult(content, metadata, score) with score = float(1 / (1 + distance)):
\* the sum 1 + distance is a floating-point number, and the score is kept as
\* the fraction num / den of 1 by that sum
SearchResult(c, m, distance) ==
    [content |-> c, metadata |-> m,
     score |-> [num |-> One, den |-> RoundToFloat(One + distance)]]

\* the result list search builds from the (distance, idx) pairs: a pair is kept
\* when idx < len(self.chunks), and chunks[idx] is Python indexing
BuildResults(hs, chs) ==
    LET kept == SelectSeq(hs, LAMBDA h : h[2] < Len(chs))
    IN  [j \in 1..Len(kept) |->
            SearchResult(PyIndex(chs, kept[j][2]).content,
                         PyIndex(chs, kept[j][2]).metadata,
                         kept[j][1])]

\* the ways index.search(vector, k) can treat k = 0: the FAISS wrapper of the
\* build either asserts k > 0 or returns empty arrays
ZeroKOutcomes == {"assert", "empty"}

\* search(query, top_k) with get_embeddings ending as e and a FAISS build that
\* treats k = 0 as z
search(query, top_k, e, z) ==
    LET emb == get_embeddings(<<query>>, e)
        k == Min(top_k, Len(chunks))
    IN  /\ op' = "search"
        /\ arg' = Args(<<>>, query, top_k)
        /\ embedded' = e
        /\ _model' = ModelAfter(_model, e)
        /\ UNCHANGED <<dimension, index, chunks, embeddings, indexFile,
                       chunksFile, saved, whole>>
        /\ IF emb.none
             THEN ret' = "None" /\ NoSearch
             ELSE IF ModelDim # index.d \/ (k <= 0 /\ z = "assert")
               \* index.search: "assert d == self.d", "assert k > 0"
               THEN ret' = "raise" /\ NoSearch
               ELSE /\ hits' = IF k <= 0 THEN <<>> ELSE IndexSearch(index, emb.list[1], k)
                    /\ results' = BuildResults(hits', chunks)
                    /\ ret' = "list"

\* save(directory), run to its end
save ==
    /\ indexFile' = Written(write_index(index))
    /\ chunksFile' = Written(DumpChunks(chunks))
    /\ saved' = [index |-> index, chunks |-> chunks]
    /\ whole' = TRUE
    /\ op' = "save"
    /\ arg' = NoArgs
    /\ embedded' = "none"
    /\ ret' = "None"
    /\ NoSearch
    /\ UNCHANGED <<dimension, index, chunks, embeddings, _model>>

\* the places save can be stopped at by the process being killed
KillPoints == {"write_index", "between", "json_dump"}

\* nothing saved yet
NothingSaved == [index |-> IndexFlatL2(0), chunks |-> <<>>]

\* save(directory) stopped at point p by the process being killed, and the
\* next process constructing its VectorStore on what is left on disk
save_killed(p) ==
    /\ indexFile' = IF p = "write_index" THEN Truncated(NoIndexData)
                                         ELSE Written(write_index(index))
    /\ chunksFile' = IF p = "json_dump" THEN Truncated(NoChunkData) ELSE chunksFile
    /\ whole' = FALSE
    /\ saved' = NothingSaved
    /\ NewStore

\* the process ending and the next one constructing its VectorStore
restart ==
    /\ NewStore
    /\ UNCHANGED <<indexFile, chunksFile, saved, whole>>

\* load(directory)
load ==
    /\ op' = "load"
    /\ arg' = NoArgs
    /\ embedded' = "none"
    /\ NoSearch
    /\ UNCHANGED <<dimension, embeddings, _model, indexFile, chunksFile, saved, whole>>
    /\ IF indexFile.exists /\ ~indexFile.valid
         \* read_index raises before anything is assigned
         THEN /\ ret' = "False"
              /\ UNCHANGED <<index, chunks>>
         ELSE /\ index' = IF indexFile.exists THEN read_index(indexFile.data) ELSE index
              /\ IF chunksFile.exists /\ ~chunksFile.valid
                   \* json.load raises after self.index was assigned
                   THEN /\ ret' = "False"
                        /\ UNCHANGED chunks
                   ELSE /\ chunks' = IF chunksFile.exists
                                       THEN LoadChunks(chunksFile.data) ELSE chunks
                        /\ ret' = "True"

(***************************************************************************)
(* CacheManager.                                                           *)
(***************************************************************************)
\* the keys handed to the cache: strings, and the integer 123
StrKey(s) == [str |-> TRUE, name |-> s]
IntKey == [str |-> FALSE, name |-> "123"]
CacheKeys == {StrKey("k1"), StrKey("k2"), IntKey}

\* Python values: None, and the cached values
None == [none |-> TRUE, v |-> ""]
Some(v) == [none |-> FALSE, v |-> v]
CacheValues == {Some("v1"), Some("v2"), None}

\* how a call ends: it returns a value, or raises
Returned(v) == [raised |-> "no", value |-> v]
Raised(x) == [raised |-> x, value |-> None]

\* the ttl values a CacheManager is built with
Ttls == 0..MaxTtl

\* the dict d with d[k] = item, and with k deleted
DictSet(d, k, item) == [x \in DOMAIN d \cup {k} |-> IF x = k THEN item ELSE d[x]]
DictDel(d, k) == [x \in DOMAIN d \ {k} |-> d[x]]

\* get's test with the entry expiring when ttl seconds have gone by
expired_at_ttl(timestamp, t, life) == t - timestamp >= life

\* get: "time.time() - item['timestamp'] > self.ttl"
expired(timestamp, t, life) == t - timestamp > life

\* set without "if value is None"
set_result_any_value(key, value) == IF ~key.str THEN "TypeError" ELSE "no"

\* how set(key, value) ends: TypeError for a key that is no str, then
\* ValueError for the value None
set_result(key, value) ==
    IF ~key.str THEN "TypeError"
    ELSE IF value.none THEN "ValueError"
    ELSE "no"

\* set(key, value)
cache_set(key, value) ==
    LET r == set_result(key, value)
    IN  /\ cache_op' = "set"
        /\ cache_key' = key
        /\ cache_value' = value
        /\ cache_ret' = IF r = "no" THEN Returned(None) ELSE Raised(r)
        /\ UNCHANGED <<ttl, now>>
        /\ IF r = "no"
             THEN /\ _cache' = DictSet(_cache, key.name,
                                       [value |-> value, timestamp |-> now])
                  /\ last_set' = DictSet(last_set, key.name,
                                         [value |-> value, at |-> now])
             ELSE UNCHANGED <<_cache, last_set>>

\* get(key)
cache_get(key) ==
    /\ cache_op' = "get"
    /\ cache_key' = key
    /\ cache_value' = None
    /\ UNCHANGED <<ttl, now, last_set>>
    /\ IF ~key.str
         THEN cache_ret' = Raised("TypeError") /\ UNCHANGED _cache
         ELSE IF key.name \notin DOMAIN _cache
           \* "if not item": no entry
           THEN cache_ret' = Returned(None) /\ UNCHANGED _cache
           ELSE IF expired(_cache[key.name].timestamp, now, ttl)
             THEN /\ _cache' = DictDel(_cache, key.name)
                  /\ cache_ret' = Returned(None)
             ELSE /\ cache_ret' = Returned(_cache[key.name].value)
                  /\ UNCHANGED _cache

\* remove(key): "if key in self._cache: del self._cache[key]"
cache_remove(key) ==
    /\ cache_op' = "remove"
    /\ cache_key' = key
    /\ cache_value' = None
    /\ cache_ret' = Returned(None)
    /\ _cache' = IF key.str THEN DictDel(_cache, key.name) ELSE _cache
    /\ last_set' = IF key.str THEN DictDel(last_set, key.name) ELSE last_set
    /\ UNCHANGED <<ttl, now>>

\* clear()
cache_clear ==
    /\ cache_op' = "clear"
    /\ cache_key' = IntKey
    /\ cache_value' = None
    /\ cache_ret' = Returned(None)
    /\ _cache' = <<>>
    /\ last_set' = <<>>
    /\ UNCHANGED <<ttl, now>>

\* the clock moving on by a second
tick ==
    /\ now' = now + 1
    /\ cache_op' = "tick"
    /\ UNCHANGED <<_cache, ttl, last_set, cache_key, cache_value, cache_ret>>

\* CacheManager(life), not used yet
NewCache(life) ==
    /\ _cache = <<>>
    /\ ttl = life
    /\ now = 0
    /\ last_set = <<>>
    /\ cache_op = "init"
    /\ cache_key = IntKey
    /\ cache_value = None
    /\ cache_ret = Returned(None)

CacheIdle == NewCache(DefaultTtl)

(***************************************************************************)
(* ChatHistory.                                                            *)
(***************************************************************************)
\* the interactions added to the history
Interactions ==
    {[user |-> "u1", assistant |-> "a1"], [user |-> "u2", assistant |-> "a2"]}

\* get_recent_history(n): "self.history[-n:] if self.history else []"
recent(h, n) == IF h = <<>> THEN <<>> ELSE PySlice(h, 0 - n, Len(h))

\* add_interaction(user_input, response): append, keep the newest
\* MAX_HISTORY_ITEMS, save
add_interaction(user_input, response) ==
    LET appended == Append(history, [user |-> user_input, assistant |-> response])
    IN  /\ history' = IF Len(appended) > MAX_HISTORY_ITEMS
                        THEN PySlice(appended, 0 - MAX_HISTORY_ITEMS, Len(appended))
                        ELSE appended
        /\ history_file' = history'
        /\ hist_op' = "add_interaction"
        /\ hist_n' = 0
        /\ hist_ret' = <<>>

\* get_recent_history(n)
get_recent_history(n) ==
    /\ hist_op' = "get_recent_history"
    /\ hist_n' = n
    /\ hist_ret' = recent(history, n)
    /\ UNCHANGED <<history, history_file>>

\* clear_history(): empty the list, save
clear_history ==
    /\ history' = <<>>
    /\ history_file' = history'
    /\ hist_op' = "clear_history"
    /\ hist_n' = 0
    /\ hist_ret' = <<>>

\* ChatHistory(history_file) in a new process: _load_history
history_restart ==
    /\ history' = history_file
    /\ hist_op' = "init"
    /\ hist_n' = 0
    /\ hist_ret' = <<>>
    /\ UNCHANGED history_file

\* ChatHistory(history_file) with no history file yet
HistoryIdle ==
    /\ history = <<>>
    /\ history_file = <<>>
    /\ hist_op = "init"
    /\ hist_n = 0
    /\ hist_ret = <<>>

(***************************************************************************)
(* CommandFactory.                                                         *)
(***************************************************************************)
\* an input line is a sequence of symbols: the slash, a blank, the registered
\* name "help", and a letter that is no command name
Symbols == {"/", " ", "help", "x"}
InputLines == SeqsOf(Symbols, 0, MaxInput)

\* CommandFactory._commands once the package is imported: the name of the
\* class registered under each name
_commands ==
    [exit |-> "ExitCommand", clear |-> "ClearCommand", help |-> "HelpCommand",
     lang |-> "LangCommand", load |-> "LoadCommand", history |-> "HistoryCommand",
     clearknowledge |-> "ClearKnowledgeCommand"]

\* str.split(): the runs of symbols between blanks, none of them empty; word
\* is the run being read
RECURSIVE split_from(_, _)
split_from(s, word) ==
    IF s = <<>> THEN (IF word = <<>> THEN <<>> ELSE <<word>>)
    ELSE IF Head(s) = " "
      THEN (IF word = <<>> THEN <<>> ELSE <<word>>) \o split_from(Tail(s), <<>>)
      ELSE split_from(Tail(s), Append(word, Head(s)))

split(s) == split_from(s, <<>>)

\* _commands.get(name): a word of one symbol is looked up under that symbol,
\* a longer word is no registered name
commands_get(word) ==
    IF Len(word) = 1
      THEN (IF word[1] \in DOMAIN _commands THEN _commands[word[1]] ELSE "None")
      ELSE "None"

\* get_command(command_text): None for a line without the leading slash;
\* "command_parts[0]" raises IndexError when nothing follows the slash but
\* blanks
get_command(command_text) ==
    IF command_text = <<>> THEN Returned("None")
    ELSE IF Head(command_text) # "/" THEN Returned("None")
    ELSE IF split(Tail(command_text)) = <<>> THEN [raised |-> "IndexError", value |-> "None"]
    ELSE Returned(commands_get(split(Tail(command_text))[1]))

\* CommandFactory.get_command(line), called on its own
call_get_command(line) ==
    /\ fac_input' = line
    /\ fac_op' = "get_command"
    /\ fac_ret' = get_command(line)
    /\ fac_handled' = "none"

\* handle_user_input(line) up to the command's execute
handle_user_input(line) ==
    /\ fac_input' = line
    /\ fac_op' = "handle_user_input"
    /\ fac_ret' = get_command(line)
    /\ fac_handled' = IF fac_ret'.raised # "no" THEN "raise"
                      ELSE IF fac_ret'.value = "None" THEN "None"
                      ELSE "execute"

\* nothing handed to the factory yet
FactoryIdle ==
    /\ fac_input = <<>>
    /\ fac_op = "init"
    /\ fac_ret = Returned("None")
    /\ fac_handled = "none"

(***************************************************************************)
(* The chat process before any input, and split_text before any call.      *)
(***************************************************************************)
\* process_file's result: None, or the list of chunks
NoneResult == [none |-> TRUE, chunks |-> <<>>]
ChunkList(chs) == [none |-> FALSE, chunks |-> chs]

\* no input handled yet; the model was never fetched
AppIdle ==
    /\ running = TRUE
    /\ cached = FALSE
    /\ command = "none"
    /\ path = ""
    /\ processed = NoneResult
    /\ outcome = "none"
    /\ events = <<>>
    /\ relevant_texts = <<>>

\* no store call in flight, main about to read its first input
LoopIdle ==
    /\ tasks = <<>>
    /\ current = 0
    /\ main_pc = "prompt"

\* the objects the store specifications do not use, as constructed
SideIdle == CacheIdle /\ HistoryIdle /\ FactoryIdle

\* no run of split_text before this one on the same text and metadata
NoRun == [same |-> FALSE, out |-> <<>>]

(***************************************************************************)
(* The store's specification.                                              *)
(***************************************************************************)
\* split_text not running
SplitIdle ==
    /\ tokens = <<>>
    /\ chunk_size = DefaultChunkSize
    /\ chunk_overlap = DefaultChunkOverlap
    /\ metadata = FileMetadata("f1")
    /\ i = 0
    /\ spans = <<>>
    /\ out = <<>>
    /\ pc = "idle"
    /\ prev = NoRun

Init ==
    /\ dimension \in Dimensions
    /\ index = IndexFlatL2(dimension)
    /\ chunks = <<>>
    /\ embeddings = <<>>
    /\ _model = "None"
    /\ indexFile = Absent(NoIndexData)
    /\ chunksFile = Absent(NoChunkData)
    /\ saved = NothingSaved
    /\ whole = FALSE
    /\ op = "init"
    /\ arg = NoArgs
    /\ embedded = "none"
    /\ ret = "None"
    /\ hits = <<>>
    /\ results = <<>>
    /\ SplitIdle
    /\ AppIdle
    /\ LoopIdle
    /\ SideIdle

AddTexts ==
    \E batch \in SeqsOf(ChunkValues, 0, MaxBatch) : \E e \in EmbedOutcomes(_model) :
        \* the store is driven to MaxChunks entries at most
        /\ Len(chunks) + Len(batch) <= MaxChunks
        /\ ntotal(index) + Len(batch) <= MaxChunks
        /\ Len(embeddings) + Len(batch) <= MaxChunks
        /\ add_texts(batch, e)
        /\ UNCHANGED <<splitVars, appVars, sideVars>>

Search ==
    \E q \in Queries : \E k \in 0..MaxK : \E e \in EmbedOutcomes(_model) :
        \E z \in (IF e = "ok" /\ Min(k, Len(chunks)) <= 0 THEN ZeroKOutcomes ELSE {"empty"}) :
            /\ search(q, k, e, z)
            /\ UNCHANGED <<splitVars, appVars, sideVars>>

Clear == clear /\ UNCHANGED <<splitVars, appVars, sideVars>>

Save == save /\ UNCHANGED <<splitVars, appVars, sideVars>>

SaveKilled ==
    \E p \in KillPoints :
        /\ save_killed(p)
        /\ UNCHANGED <<splitVars, appVars, sideVars>>

Restart == restart /\ UNCHANGED <<splitVars, appVars, sideVars>>

Load == load /\ UNCHANGED <<splitVars, appVars, sideVars>>

Next == AddTexts \/ Search \/ Clear \/ Save \/ SaveKilled \/ Restart \/ Load

Spec == Init /\ [][Next]_vars

(***************************************************************************)
(* DocumentProcessor.split_text.                                           *)
(***************************************************************************)
\* token ids of the encoding
TokenIds == {1, 2}

\* the text a token stands for
Piece(t) == IF t = 1 THEN "x" ELSE "yz"

\* encoding.decode(tokens): the tokens' texts one after the other
decode(ts) == [j \in 1..Len(ts) |-> Piece(ts[j])]

\* the 3000-token document of the end-to-end scenario
LongDocument == [p \in 1..3000 |-> 1]

\* the token sequences split_text is given: every short one, and the long
\* document for a processor with the default configuration
TokenInputs ==
    SeqsOf(TokenIds, 0, MaxTokens)
        \cup (IF chunk_size = DefaultChunkSize THEN {LongDocument} ELSE {})

\* the (chunk_size, chunk_overlap) a DocumentProcessor is constructed with:
\* nothing is validated, so every small pair, and the defaults
Configs ==
    ((0..MaxChunkSize) \X ((0 - 1)..MaxChunkSize))
        \cup {<<DefaultChunkSize, DefaultChunkOverlap>>}

\* most windows a run of the loop is followed for: more than any run takes
\* whose window start advances
MaxWindows == MaxTokens + 1

\* WindowEnd taking one token too few
WindowEndShort(start, size, n) == Min(start + size - 1, n)

\* the end of the window starting at i
WindowEnd(start, size, n) == Min(start + size, n)

\* NextStart forgetting the overlap
NextStartNoOverlap(start, size, overlap) == start + size

\* NextStart assigning the step instead of adding it
NextStartAssigned(start, size, overlap) == size - overlap

\* NextStart with the step clamped to one token at least
NextStartClamped(start, size, overlap) ==
    start + (IF size - overlap > 0 THEN size - overlap ELSE 1)

\* the start of the next window
NextStart(start, size, overlap) == start + size - overlap

\* metadata.copy()
CopyOf(m) == [k \in DOMAIN m |-> m[k]]

\* split_call with the chunk list kept between calls, as an attribute of the
\* processor would be
split_call_keeping(toks, md) ==
    /\ pc \in {"idle", "done"}
    /\ tokens' = toks
    /\ metadata' = md
    /\ i' = 0
    /\ pc' = "loop"
    /\ prev' = IF pc = "done" /\ toks = tokens /\ md = metadata
                THEN [same |-> TRUE, out |-> out] ELSE NoRun
    /\ UNCHANGED <<chunk_size, chunk_overlap, spans, out>>

\* the call: metadata defaults, the text is tokenized, i = 0
split_call(toks, md) ==
    /\ pc \in {"idle", "done"}
    /\ tokens' = toks
    /\ metadata' = md
    /\ i' = 0
    /\ spans' = <<>>
    /\ out' = <<>>
    /\ pc' = "loop"
    /\ prev' = IF pc = "done" /\ toks = tokens /\ md = metadata
                THEN [same |-> TRUE, out |-> out] ELSE NoRun
    /\ UNCHANGED <<chunk_size, chunk_overlap>>

\* one turn of "while i < len(tokens)"
split_step ==
    /\ pc = "loop"
    /\ i < Len(tokens)
    /\ Len(out) < (IF Len(tokens) > MaxTokens THEN Len(tokens) ELSE MaxWindows)
    /\ LET end == WindowEnd(i, chunk_size, Len(tokens))
       IN  /\ out' = Append(out, TextChunk(decode(PySlice(tokens, i, end)), CopyOf(metadata)))
           /\ spans' = Append(spans, <<i, end>>)
    /\ i' = NextStart(i, chunk_size, chunk_overlap)
    /\ UNCHANGED <<tokens, chunk_size, chunk_overlap, metadata, pc, prev>>

\* the loop condition failing: return chunks
split_return ==
    /\ pc = "loop"
    /\ ~(i < Len(tokens))
    /\ pc' = "done"
    /\ UNCHANGED <<tokens, chunk_size, chunk_overlap, metadata, i, spans, out, prev>>

\* no store call made
StoreIdle ==
    /\ dimension = ModelDim
    /\ index = IndexFlatL2(dimension)
    /\ chunks = <<>>
    /\ embeddings = <<>>
    /\ _model = "None"
    /\ indexFile = Absent(NoIndexData)
    /\ chunksFile = Absent(NoChunkData)
    /\ saved = NothingSaved
    /\ whole = FALSE
    /\ op = "init"
    /\ arg = NoArgs
    /\ embedded = "none"
    /\ ret = "None"
    /\ hits = <<>>
    /\ results = <<>>

InitSplit ==
    /\ StoreIdle
    /\ \E c \in Configs : chunk_size = c[1] /\ chunk_overlap = c[2]
    /\ tokens = <<>>
    /\ metadata = FileMetadata("f1")
    /\ i = 0
    /\ spans = <<>>
    /\ out = <<>>
    /\ pc = "idle"
    /\ prev = NoRun
    /\ AppIdle
    /\ LoopIdle
    /\ SideIdle

SplitCall ==
    \E toks \in TokenInputs : \E f \in {"f1", "f2"} :
        split_call(toks, FileMetadata(f)) /\ UNCHANGED <<storeVars, appVars, sideVars>>

SplitStep == split_step /\ UNCHANGED <<storeVars, appVars, sideVars>>

SplitReturn == split_return /\ UNCHANGED <<storeVars, appVars, sideVars>>

NextSplit == SplitCall \/ SplitStep \/ SplitReturn

SpecSplit == InitSplit /\ [][NextSplit]_vars

\* a running loop takes its next turn
SpecSplitFair == SpecSplit /\ WF_vars(SplitStep) /\ WF_vars(SplitReturn)

(***************************************************************************)
(* The documents a user can name, and DocumentProcessor.process_file.      *)
(***************************************************************************)
\* the paths /load is given: two text files, an empty file, a file that is
\* not UTF-8 text, and a path where nothing is
Paths == {"f1", "f2", "empty", "binary", "missing"}

\* what is at a path
PathState(p) ==
    IF p = "missing" THEN "missing"
    ELSE IF p = "binary" THEN "undecodable"
    ELSE "text"

\* the text of a text file
FileText(p) == IF p = "f1" THEN "a" ELSE IF p = "f2" THEN "b" ELSE ""

\* load_text's result: None, or the text read
NoText == [none |-> TRUE, text |-> ""]
TextRead(t) == [none |-> FALSE, text |-> t]

\* load_text decoding with errors="replace": a file that is not UTF-8 reads as
\* some text
load_text_replacing(p) ==
    IF PathState(p) = "missing" THEN NoText
    ELSE IF PathState(p) = "undecodable" THEN TextRead("a")
    ELSE TextRead(FileText(p))

\* load_text(file_path): None when os.path.exists is false, None when open or
\* read raises (the except branch), the text otherwise
load_text(p) ==
    IF PathState(p) = "missing" THEN NoText
    ELSE IF PathState(p) = "undecodable" THEN NoText
    ELSE TextRead(FileText(p))

\* split_text(text, metadata) as process_file calls it, with the default
\* configuration, on a text of at most chunk_size - chunk_overlap tokens (every
\* document of the model is): the loop takes the one window [0, n) of a text
\* that is not empty and no window of the empty text
split_text(text, md) ==
    IF text = "" THEN <<>> ELSE <<TextChunk(text, CopyOf(md))>>

\* process_file(file_path)
process_file(p) ==
    LET text == load_text(p)
    IN  IF text.none THEN NoneResult
        ELSE ChunkList(split_text(text.text, FileMetadata(p)))

(***************************************************************************)
(* VectorStore.model: the lazy initialization of the embedding model.      *)
(***************************************************************************)
\* how the SentenceTransformer(MODEL_NAME, device='cpu') of
\* _is_model_downloaded ends when the model property is read:
\*   "skipped"  _model is set, nothing is constructed
\*   "found"    the files are in the cache, the model loads from them
\*   "fetched"  the files are not in the cache, the constructor downloads them
\*   "failed"   the files are not in the cache and the constructor raises
ProbeOutcomes(m, c) ==
    IF m # "None" THEN {"skipped"}
    ELSE IF c THEN {"found"}
    ELSE {"fetched", "failed"}

\* _is_model_downloaded(): True unless the constructor raised
_is_model_downloaded(p) == p # "failed"

\* the steps the model property takes, in order, when get_embeddings reads it
\* with the probe ending as p and the call as e: every SentenceTransformer(...)
\* loads the model, and downloads it first when the cache does not hold it
model_events(m, c, p, e) ==
    IF m # "None" THEN <<>>
    ELSE <<"SentenceTransformer_cpu">> \o (IF c THEN <<>> ELSE <<"download">>)
         \o (IF _is_model_downloaded(p)
               THEN <<"SentenceTransformer">>
               ELSE <<"notice", "SentenceTransformer", "download">>
                    \o (IF e # "load_fail" THEN <<"done_notice">> ELSE <<>>))

\* whether the cache holds the model after the property was read
CacheAfter(m, c, p, e) ==
    IF m # "None" THEN c
    ELSE c \/ p = "fetched" \/ (p = "failed" /\ e # "load_fail")

(***************************************************************************)
(* The chat process: /load, /clearknowledge and get_response.              *)
(***************************************************************************)
\* search's default top_k, which get_response uses
DefaultTopK == 3

\* a handler that calls nothing of the store
NoCall ==
    /\ op' = "none"
    /\ arg' = NoArgs
    /\ embedded' = "none"
    /\ ret' = "None"
    /\ NoSearch

\* LoadCommand.execute(*args): file_path is args[0], "" when no argument was
\* given; get_embeddings ends as e, the probe of the model property as p.  An
\* exception of add_texts leaves execute, and main, uncaught
LoadCommand_execute(file_path, e, p) ==
    LET result == IF file_path = "" THEN NoneResult ELSE process_file(file_path)
        batch == result.chunks
        texts == [j \in 1..Len(batch) |-> batch[j].content]
        embs == get_embeddings(texts, e)
        r == add_result(embs, index)
    IN  /\ command' = "load"
        /\ path' = file_path
        /\ processed' = result
        /\ relevant_texts' = <<>>
        /\ UNCHANGED dimension
        /\ IF result.none
             \* "if not args" and "if chunks is None": a message, return True
             THEN /\ NoCall
                  /\ events' = <<>>
                  /\ outcome' = IF file_path = "" THEN "usage" ELSE "not_found"
                  /\ UNCHANGED <<index, chunks, embeddings, _model, indexFile,
                                 chunksFile, saved, whole, running, cached>>
             ELSE /\ events' = model_events(_model, cached, p, e)
                  /\ cached' = CacheAfter(_model, cached, p, e)
                  /\ _model' = ModelAfter(_model, e)
                  /\ embedded' = e
                  /\ NoSearch
                  /\ IF r = "True"
                       \* add_texts returned True: the panel, then save
                       THEN /\ index' = IndexAdd(index, embs.list)
                            /\ chunks' = chunks \o batch
                            /\ embeddings' = embeddings \o embs.list
                            /\ indexFile' = Written(write_index(index'))
                            /\ chunksFile' = Written(DumpChunks(chunks'))
                            /\ saved' = [index |-> index', chunks |-> chunks']
                            /\ whole' = TRUE
                            /\ op' = "save"
                            /\ arg' = NoArgs
                            /\ ret' = "None"
                            /\ outcome' = "saved"
                            /\ UNCHANGED running
                       \* add_texts returned False (a message, return True) or
                       \* raised
                       ELSE /\ op' = "add_texts"
                            /\ arg' = Args(batch, "", 0)
                            /\ ret' = r
                            /\ outcome' = IF r = "False" THEN "add_failed" ELSE "raised"
                            /\ running' = (r # "raise")
                            /\ UNCHANGED <<index, chunks, embeddings, indexFile,
                                           chunksFile, saved, whole>>

\* ClearCommand.execute() of knowledge_commands: clear(), then save(directory)
ClearCommand_execute ==
    /\ index' = IndexFlatL2(dimension)
    /\ chunks' = <<>>
    /\ embeddings' = <<>>
    /\ indexFile' = Written(write_index(index'))
    /\ chunksFile' = Written(DumpChunks(chunks'))
    /\ saved' = [index |-> index', chunks |-> chunks']
    /\ whole' = TRUE
    /\ op' = "save"
    /\ arg' = NoArgs
    /\ embedded' = "none"
    /\ ret' = "None"
    /\ NoSearch
    /\ UNCHANGED <<dimension, _model>>

\* handle_user_input("/clearknowledge"): execute is a plain function here, so
\* "await command.execute(*args)" awaits the True it returned, and the
\* TypeError leaves main uncaught
handle_clearknowledge ==
    /\ ClearCommand_execute
    /\ command' = "clearknowledge"
    /\ path' = ""
    /\ processed' = NoneResult
    /\ outcome' = "cleared"
    /\ events' = <<>>
    /\ relevant_texts' = <<>>
    /\ running' = FALSE
    /\ UNCHANGED cached

\* get_response's guard with the test left out
retrieves_always(ix) == TRUE

\* get_response: "if vector_store.index.ntotal > 0"
retrieves(ix) == ntotal(ix) > 0

\* get_response(session, prompt) up to the system prompt: the retrieval, with
\* get_embeddings ending as e, a FAISS build treating k = 0 as z, and the probe
\* of the model property ending as p
get_response(prompt, e, z, p) ==
    /\ command' = "chat"
    /\ path' = ""
    /\ processed' = NoneResult
    /\ IF retrieves(index)
         THEN /\ search(prompt, DefaultTopK, e, z)
              /\ events' = model_events(_model, cached, p, e)
              /\ cached' = CacheAfter(_model, cached, p, e)
              \* "if results:" is false for None and for the empty list
              /\ relevant_texts' =
                    IF ret' = "list"
                      THEN [j \in 1..Len(results') |-> results'[j].content]
                      ELSE <<>>
              /\ outcome' = IF ret' = "raise" THEN "raised" ELSE "answered"
              /\ running' = (ret' # "raise")
         ELSE /\ NoCall
              /\ events' = <<>>
              /\ relevant_texts' = <<>>
              /\ outcome' = "answered"
              /\ UNCHANGED <<dimension, index, chunks, embeddings, _model,
                             indexFile, chunksFile, saved, whole, running, cached>>

\* the process ending (/exit, Ctrl-C twice, or an uncaught exception) and the
\* next one importing knowledge_commands: vector_store = VectorStore()
process_restart ==
    /\ NewStore
    /\ running' = TRUE
    /\ command' = "none"
    /\ path' = ""
    /\ processed' = NoneResult
    /\ outcome' = "none"
    /\ events' = <<>>
    /\ relevant_texts' = <<>>
    /\ UNCHANGED <<indexFile, chunksFile, saved, whole, cached>>

InitApp ==
    /\ StoreIdle
    /\ SplitIdle
    /\ running = TRUE
    /\ cached \in BOOLEAN
    /\ command = "none"
    /\ path = ""
    /\ processed = NoneResult
    /\ outcome = "none"
    /\ events = <<>>
    /\ relevant_texts = <<>>
    /\ LoopIdle
    /\ SideIdle

LoadCommand ==
    /\ running
    /\ \E f \in Paths \cup {""} : \E e \in EmbedOutcomes(_model) :
         \E p \in ProbeOutcomes(_model, cached) :
            \* the store is driven to MaxChunks entries at most
            /\ f # "" => Len(chunks) + Len(process_file(f).chunks) <= MaxChunks
            /\ LoadCommand_execute(f, e, p)
            /\ UNCHANGED <<splitVars, sideVars>>

ClearKnowledgeCommand == running /\ handle_clearknowledge /\ UNCHANGED <<splitVars, sideVars>>

ChatRequest ==
    /\ running
    /\ \E q \in Prompts : \E e \in EmbedOutcomes(_model) :
         \E z \in (IF e = "ok" /\ Min(DefaultTopK, Len(chunks)) <= 0
                     THEN ZeroKOutcomes ELSE {"empty"}) :
           \E p \in ProbeOutcomes(_model, cached) :
              /\ get_response(q, e, z, p)
              /\ UNCHANGED <<splitVars, sideVars>>

ProcessRestart == process_restart /\ UNCHANGED <<splitVars, sideVars>>

NextApp == LoadCommand \/ ClearKnowledgeCommand \/ ChatRequest \/ ProcessRestart

SpecApp == InitApp /\ [][NextApp]_vars

(***************************************************************************)
(* Properties of split_text.                                               *)
(***************************************************************************)
\* chunk_size > 0 and 0 <= chunk_overlap < chunk_size
ValidConfig == chunk_size > 0 /\ 0 <= chunk_overlap /\ chunk_overlap < chunk_size

\* ceil(a / b) for b > 0
CeilDiv(a, b) == (a + b - 1) \div b

\* the tokens at positions [lo, hi) of the token sequence, decoded
Decoded(lo, hi) == decode(SubSeq(tokens, lo + 1, hi))

\* C8: for 0 <= chunk_overlap < chunk_size, split_text returns exactly
\* ceil(n / step) chunks, step = chunk_size - chunk_overlap; chunk j holds the
\* tokens [j*step, min(j*step + chunk_size, n)); no tokens give no chunks, and
\* 3000 tokens with 1000/200 give 4 chunks starting at 0, 800, 1600, 2400
C8_ChunkCountAndWindows ==
    (pc = "done" /\ ValidConfig) =>
        LET n == Len(tokens)
            step == chunk_size - chunk_overlap
        IN  /\ Len(out) = CeilDiv(n, step)
            /\ Len(spans) = Len(out)
            /\ \A j \in 1..Len(out) :
                  /\ spans[j] = <<(j - 1) * step, Min((j - 1) * step + chunk_size, n)>>
                  /\ out[j].content = Decoded(spans[j][1], spans[j][2])
            /\ (n = 0 => out = <<>>)
            /\ (n = 3000 /\ chunk_size = 1000 /\ chunk_overlap = 200 =>
                  /\ Len(out) = 4
                  /\ [j \in 1..4 |-> spans[j][1]] = <<0, 800, 1600, 2400>>)

\* the 3000-token document split with the default 1000/200
C8_Witness ==
    /\ pc = "done"
    /\ ValidConfig
    /\ Len(tokens) = 3000
    /\ chunk_size = 1000 /\ chunk_overlap = 200
    /\ Len(out) = 4

\* C9: for a non-empty token sequence and 0 <= chunk_overlap < chunk_size,
\* every token position lies in some chunk, each chunk is the decoded tokens of
\* its window, and the next window starts at or before the end of the last
C9_NoGaps ==
    (pc = "done" /\ ValidConfig /\ Len(tokens) >= 1) =>
        /\ \A p \in 0..(Len(tokens) - 1) :
              \E j \in 1..Len(out) :
                  /\ spans[j][1] <= p /\ p < spans[j][2]
                  /\ out[j].content = Decoded(spans[j][1], spans[j][2])
        /\ \A j \in 1..(Len(out) - 1) : spans[j + 1][1] <= spans[j][2]

\* several overlapping windows over a short token sequence
C9_Witness ==
    /\ pc = "done"
    /\ ValidConfig
    /\ chunk_overlap >= 1
    /\ Len(out) >= 3
    /\ Len(tokens) <= MaxTokens

\* C10: for chunk_size > 0 and 0 <= chunk_overlap < chunk_size, a call of
\* split_text on a finite token sequence returns
C10_Terminates == (pc = "loop" /\ ValidConfig) ~> (pc = "done")

\* a call that returned after several turns of the loop
C10_Witness ==
    /\ pc = "done"
    /\ ValidConfig
    /\ Len(out) >= 2
    /\ Len(out) = CeilDiv(Len(tokens), chunk_size - chunk_overlap)

\* C11: split_text is deterministic and free of side effects: a run on the
\* text and metadata of the run before it, by the same processor, returns the
\* same chunk sequence; no step of a run changes chunk_size or chunk_overlap,
\* and the caller's metadata mapping is the same at every step of the loop
C11_SplitDeterministicAndPure ==
    [][/\ chunk_size' = chunk_size
       /\ chunk_overlap' = chunk_overlap
       /\ (pc = "loop" => metadata' = metadata)
       /\ ((pc' = "done" /\ prev'.same) => out' = prev'.out)]_vars

\* a second run on the same text and metadata that returned two chunks or more
C11_Witness ==
    /\ pc = "done"
    /\ prev.same
    /\ Len(out) >= 2
    /\ out = prev.out
    /\ \A j \in 1..Len(out) : out[j].metadata = metadata

(***************************************************************************)
(* Properties of the VectorStore.                                          *)
(***************************************************************************)
\* C1: after any sequence of add_texts, clear, save and load calls the index
\* holds as many vectors as there are chunks
C1_IndexMatchesChunks == ntotal(index) = Len(chunks)

\* C2: when get_embeddings returns None, add_texts returns False and leaves
\* index, chunks and embeddings as they were
C2_EmbeddingFailureCommitsNothing ==
    [][(op' = "add_texts" /\ embedded' # "ok") =>
          /\ ret' = "False"
          /\ index' = index
          /\ chunks' = chunks
          /\ embeddings' = embeddings]_vars

\* a chunk refused by a store that holds a chunk already, with the model
\* loaded by the earlier call
C2_Witness ==
    /\ op = "add_texts"
    /\ embedded = "encode_fail"
    /\ ret = "False"
    /\ Len(arg.chunks) >= 1
    /\ Len(chunks) >= 1
    /\ ntotal(index) = Len(chunks)
    /\ embeddings = index.xb

\* C3: a search with k >= 1 on a store of n >= 1 vectors whose embedding step
\* succeeds returns exactly min(k, n) results in non-decreasing distance
C3_SearchReturnsMinKNSorted ==
    (op = "search" /\ embedded = "ok" /\ arg.top_k >= 1 /\ ntotal(index) >= 1) =>
        /\ ret = "list"
        /\ Len(results) = Min(arg.top_k, ntotal(index))
        /\ \A j \in 1..(Len(results) - 1) :
              results[j].score.den <= results[j + 1].score.den

\* C4: a search on an empty store returns the empty list and does not raise
\* (stated for a query that was embedded, on a store of the model's dimension)
C4_EmptyStoreSearchIsEmpty ==
    (/\ op = "search"
     /\ embedded = "ok"
     /\ index.d = ModelDim
     /\ ntotal(index) = 0
     /\ chunks = <<>>) =>
        (ret = "list" /\ results = <<>>)

\* C5: a load that returns False leaves index and chunks as they were
C5_FailedLoadChangesNothing ==
    [][(op' = "load" /\ ret' = "False") => (index' = index /\ chunks' = chunks)]_vars

\* the directory holds one artifact without the other, or two readable
\* artifacts with different numbers of entries
PartialSnapshot ==
    \/ indexFile.exists # chunksFile.exists
    \/ /\ indexFile.exists /\ indexFile.valid
       /\ chunksFile.exists /\ chunksFile.valid
       /\ indexFile.data.ntotal # Len(chunksFile.data)

\* C6: load returns False for a partial or inconsistent snapshot
C6_PartialSnapshotRefused == (op = "load" /\ PartialSnapshot) => ret = "False"

\* the results of search(q, k) on a store holding ix and chs, once q is embedded
ResultsOn(ix, chs, q, k) ==
    IF Min(k, Len(chs)) <= 0 THEN <<>>
    ELSE BuildResults(IndexSearch(ix, Encode(q), Min(k, Len(chs))), chs)

\* C7: load of a snapshot written by one completed save gives back the saved
\* chunks (content and metadata) and the saved vectors in the same positions,
\* so that every query has the same results as on the saved store
C7_SaveLoadRoundTrip ==
    (op = "load" /\ whole) =>
        /\ ret = "True"
        /\ chunks = saved.chunks
        /\ index = saved.index
        /\ \A q \in Texts : \A k \in 1..MaxK :
              ResultsOn(index, chunks, q, k) = ResultsOn(saved.index, saved.chunks, q, k)

\* a snapshot of two different chunks loaded into a store of a new process
C7_Witness ==
    /\ op = "load"
    /\ whole
    /\ ret = "True"
    /\ Len(chunks) = 2
    /\ chunks[1] # chunks[2]
    /\ embeddings = <<>>
    /\ _model = "None"

\* C12: add_texts with a batch whose vectors do not have the length the store
\* was constructed with ends in an error, and index, chunks and embeddings are
\* what they were before the call
C12_DimensionMismatchRejected ==
    [][(/\ op' = "add_texts"
        /\ embedded' = "ok"
        /\ Len(arg'.chunks) >= 1
        /\ dimension # ModelDim)
          => /\ ret' = "raise"
             /\ index' = index
             /\ chunks' = chunks
             /\ embeddings' = embeddings]_vars

\* a batch of two embedded for a store of another dimension
C12_Witness ==
    /\ op = "add_texts"
    /\ embedded = "ok"
    /\ Len(arg.chunks) = 2
    /\ dimension # ModelDim
    /\ \A j \in 1..Len(arg.chunks) : Len(Encode(arg.chunks[j].content)) # dimension
    /\ ret = "raise"
    /\ ntotal(index) = 0
    /\ chunks = <<>>
    /\ embeddings = <<>>

\* C16: search returns None exactly when its embedding step failed, and a
\* list, which may be empty, in every other case
C16_NoneExactlyOnEmbeddingFailure ==
    op = "search" =>
        /\ (ret = "None" <=> embedded # "ok")
        /\ (embedded = "ok" => ret = "list")

\* C18: _model goes from None to a model only in a call whose model
\* initialization succeeded (the model property returned the model), and once
\* set it is never None again after an add_texts, search, clear, save or load
C18_ReadyOnlyBySuccessfulInit ==
    [][/\ (_model = "None" /\ _model' # "None") => embedded' \in {"ok", "encode_fail"}
       /\ (_model # "None" /\ op' # "init") => _model' # "None"]_vars

(***************************************************************************)
(* Properties of the chat process.                                         *)
(***************************************************************************)
\* C14: for a path that does not exist or a file that is not UTF-8 text,
\* process_file (so load_text) returns None, nothing is raised, and the /load
\* leaves the index, the chunks, the embeddings and both snapshot files as
\* they were
C14_UnreadableFileChangesNothing ==
    [][(command' = "load" /\ path' # "" /\ PathState(path') # "text")
          => /\ load_text(path').none
             /\ processed'.none
             /\ running'
             /\ outcome' = "not_found"
             /\ index' = index
             /\ chunks' = chunks
             /\ embeddings' = embeddings
             /\ indexFile' = indexFile
             /\ chunksFile' = chunksFile]_vars

\* a /load of a file that is not UTF-8, on a store that holds a saved chunk
C14_Witness ==
    /\ command = "load"
    /\ PathState(path) = "undecodable"
    /\ processed.none
    /\ running
    /\ Len(chunks) >= 1
    /\ indexFile.exists
    /\ chunksFile.exists
    /\ LoadChunks(chunksFile.data) = chunks

\* C15: a chat request made while the index is empty calls get_embeddings
\* not at all and leaves the embedding model as it is (uninitialized if it
\* was): the model property is not read, and no context is retrieved
C15_EmptyIndexSkipsEmbedding ==
    [][(command' = "chat" /\ ntotal(index) = 0)
          => /\ embedded' = "none"
             /\ op' = "none"
             /\ events' = <<>>
             /\ _model' = _model
             /\ cached' = cached
             /\ relevant_texts' = <<>>]_vars

\* a chat request in a process that holds nothing in memory, never read the
\* model, and whose snapshot directory holds a saved chunk
C15_Witness ==
    /\ command = "chat"
    /\ ntotal(index) = 0
    /\ chunks = <<>>
    /\ embedded = "none"
    /\ _model = "None"
    /\ relevant_texts = <<>>
    /\ chunksFile.exists
    /\ Len(chunksFile.data) >= 1

\* the snapshot directory holds what the store holds: both files whole, the
\* chunk records those of chunks in the same order, the index file's vector
\* count that of the index
SnapshotMirrorsStore ==
    /\ indexFile.exists /\ indexFile.valid
    /\ chunksFile.exists /\ chunksFile.valid
    /\ LoadChunks(chunksFile.data) = chunks
    /\ Len(chunksFile.data) = Len(chunks)
    /\ ntotal(read_index(indexFile.data)) = ntotal(index)

\* C17: when /clearknowledge or a /load that added its chunks has completed,
\* the snapshot mirrors the store in memory: the same chunk records in the same
\* order and the same vector count; after /clearknowledge both are empty
C17_SnapshotMirrorsAfterCommand ==
    /\ (command = "load" /\ outcome = "saved") => SnapshotMirrorsStore
    /\ command = "clearknowledge" =>
          /\ SnapshotMirrorsStore
          /\ chunks = <<>>
          /\ ntotal(index) = 0
          /\ chunksFile.data = <<>>
          /\ indexFile.data.ntotal = 0

\* the second /load of a process completed: two different chunks in memory and
\* in the snapshot
C17_Witness ==
    /\ command = "load"
    /\ outcome = "saved"
    /\ Len(chunks) = 2
    /\ chunks[1] # chunks[2]
    /\ ntotal(index) = 2
    /\ SnapshotMirrorsStore

\* the steps of the model property that can block on downloading or loading
\* the model
BlockingSteps == {"SentenceTransformer_cpu", "SentenceTransformer", "download"}

\* C19: when the first read of the model property has to download the model,
\* the download notice is printed, and printed before every step that can
\* block on downloading or loading the model
C19_NoticeBeforeBlocking ==
    (\E j \in 1..Len(events) : events[j] = "download") =>
        \E n \in 1..Len(events) :
            /\ events[n] = "notice"
            /\ \A j \in 1..Len(events) : events[j] \in BlockingSteps => n < j

\* score a is at least score b
ScoreAtLeast(a, b) == a.num * b.den >= b.num * a.den

\* C20: every SearchResult of a search carries score = 1 / (1 + distance) for
\* its hit's distance >= 0, the score lies in (0, 1] and is 1 exactly when the
\* distance is 0, and the results are in non-increasing score order
C20_ScoreOneExactlyAtZero ==
    (op = "search" /\ ret = "list") =>
        /\ Len(results) = Len(hits)
        /\ \A j \in 1..Len(results) :
              LET d == hits[j][1]
                  s == results[j].score
              IN  /\ d >= 0
                  /\ s.num * (One + d) = One * s.den
                  /\ s.num > 0 /\ s.den > 0
                  /\ s.num <= s.den
                  /\ (s.num = s.den <=> d = 0)
        /\ \A j \in 1..(Len(results) - 1) :
              ScoreAtLeast(results[j].score, results[j + 1].score)

\* C20 as amended: the score is 1 / (1 + distance) with the sum 1 + distance
\* rounded to a floating-point number; it lies in (0, 1]; it is 1 when the
\* distance is 0 and for no distance above half the spacing of the
\* floating-point numbers at 1; the results are in non-increasing score order
C20_ScoreRoundedOneAtZero ==
    (op = "search" /\ ret = "list") =>
        /\ Len(results) = Len(hits)
        /\ \A j \in 1..Len(results) :
              LET d == hits[j][1]
                  s == results[j].score
              IN  /\ d >= 0
                  /\ s.num = One
                  /\ s.den = RoundToFloat(One + d)
                  /\ s.num > 0 /\ s.den > 0
                  /\ s.num <= s.den
                  /\ (d = 0 => s.num = s.den)
                  /\ (s.num = s.den <=> d <= 1)
        /\ \A j \in 1..(Len(results) - 1) :
              ScoreAtLeast(results[j].score, results[j + 1].score)

\* a chat request whose prompt is embedded next to a stored chunk, not on it:
\* the nearest hit has a distance that is not 0 and the score 1, and a farther
\* hit follows it
C20_Witness ==
    /\ op = "search"
    /\ ret = "list"
    /\ arg.query = "a2"
    /\ Len(results) = 2
    /\ hits[1][1] = 1
    /\ results[1].score.num = results[1].score.den
    /\ command = "chat"
    /\ relevant_texts = <<results[1].content, results[2].content>>


(***************************************************************************)
(* Properties of the order of the stored entries.                          *)
(***************************************************************************)
\* C21: add_texts is append-only: after a successful add_texts the chunks
\* there were are an unchanged prefix of the chunk list, the batch follows
\* them in its order, and the chunk at every position i is the one whose
\* vector is row i of the index; no call but clear shortens the chunk list
\* (load and a new process replace the whole store)
C21_AppendOnly ==
    [][/\ (op' = "add_texts" /\ ret' = "True") =>
              /\ SubSeq(chunks', 1, Len(chunks)) = chunks
              /\ SubSeq(chunks', Len(chunks) + 1, Len(chunks')) = arg'.chunks
              /\ \A p \in 1..Len(chunks') :
                    /\ p <= ntotal(index')
                    /\ index'.xb[p] = Encode(chunks'[p].content)
       /\ Len(chunks') < Len(chunks) => op' \in {"clear", "load", "init"}]_vars

(***************************************************************************)
(* The store calls as coroutines on the event loop, statement by           *)
(* statement.                                                              *)
(***************************************************************************)
TaskIds == 1..MaxTasks

\* a call of add_texts, search or clear that has not run yet
Call(o, batch, query, top_k) ==
    [op |-> o, batch |-> batch, query |-> query, top_k |-> top_k,
     pc |-> "start", e |-> "none"]

\* the calls the event loop is given
Calls ==
    {Call("add_texts", b, "", 0) : b \in SeqsOf(ChunkValues, 0, 1)}
        \cup {Call("search", <<>>, q, DefaultTopK) : q \in Queries}
        \cup {Call("clear", <<>>, "", 0)}

\* the positions with a suspension point after the insertion into the index
await_points_after_add(o) ==
    IF o = "clear" THEN {} ELSE {"await_embeddings", "index_added"}

\* the positions at which a call can be suspended: add_texts and search at
\* their "await self.get_embeddings(...)", clear nowhere
await_points(o) == IF o = "clear" THEN {} ELSE {"await_embeddings"}

\* the event loop can switch: no call has run yet, the call that ran last
\* has returned, or it is at one of its suspension points
AtSuspension ==
    IF current \in DOMAIN tasks
      THEN tasks[current].pc \in await_points(tasks[current].op)
      ELSE TRUE

\* call t can take its next step
Runnable(t) == t \in DOMAIN tasks /\ (IF current = t THEN TRUE ELSE AtSuspension)

\* the calls in flight with c started as task t, and without task t
Spawned(t, c) == [x \in DOMAIN tasks \cup {t} |-> IF x = t THEN c ELSE tasks[x]]
Without(t) == [x \in DOMAIN tasks \ {t} |-> tasks[x]]

\* call t moves to position p
co_goto(t, p) ==
    /\ tasks' = [tasks EXCEPT ![t].pc = p]
    /\ current' = t

\* call t returns (or raises) to the coroutine awaiting it
co_return(t) ==
    /\ tasks' = Without(t)
    /\ current' = t
    /\ main_pc' = IF main_pc = "awaiting" THEN "resumed" ELSE main_pc

\* add_texts and search up to their await: get_embeddings ends as e
co_embed(t, e) ==
    /\ tasks[t].pc = "start"
    /\ tasks[t].op \in {"add_texts", "search"}
    /\ _model' = ModelAfter(_model, e)
    /\ tasks' = [tasks EXCEPT ![t].pc = "await_embeddings", ![t].e = e]
    /\ current' = t
    /\ UNCHANGED <<dimension, index, chunks, embeddings, indexFile, chunksFile,
                   saved, whole, op, arg, embedded, ret, hits, results, main_pc>>

\* add_texts from its await to index.add: False when the embeddings are None,
\* the exception of index.add, or the rows added
co_add_index(t) ==
    LET batch == tasks[t].batch
        texts == [j \in 1..Len(batch) |-> batch[j].content]
        embs == get_embeddings(texts, tasks[t].e)
        r == add_result(embs, index)
    IN  /\ tasks[t].pc = "await_embeddings"
        /\ tasks[t].op = "add_texts"
        /\ UNCHANGED <<dimension, chunks, embeddings, _model, indexFile,
                       chunksFile, saved, whole>>
        /\ IF r = "True"
             THEN /\ index' = IndexAdd(index, embs.list)
                  /\ co_goto(t, "index_added")
                  /\ UNCHANGED <<op, arg, embedded, ret, hits, results, main_pc>>
             ELSE /\ op' = "add_texts"
                  /\ arg' = Args(batch, "", 0)
                  /\ embedded' = tasks[t].e
                  /\ ret' = r
                  /\ NoSearch
                  /\ co_return(t)
                  /\ UNCHANGED index

\* add_texts after index.add: chunks.extend, embeddings.extend, return True
co_add_extend(t) ==
    LET batch == tasks[t].batch
        texts == [j \in 1..Len(batch) |-> batch[j].content]
        embs == get_embeddings(texts, tasks[t].e)
    IN  /\ tasks[t].pc = "index_added"
        /\ chunks' = chunks \o batch
        /\ embeddings' = embeddings \o embs.list
        /\ op' = "add_texts"
        /\ arg' = Args(batch, "", 0)
        /\ embedded' = tasks[t].e
        /\ ret' = "True"
        /\ NoSearch
        /\ co_return(t)
        /\ UNCHANGED <<dimension, index, _model, indexFile, chunksFile, saved,
                       whole>>

\* search from its await to its return, on the store as it is by then
co_search(t, z) ==
    /\ tasks[t].pc = "await_embeddings"
    /\ tasks[t].op = "search"
    /\ search(tasks[t].query, tasks[t].top_k, tasks[t].e, z)
    /\ co_return(t)

\* clear, one assignment at a time
co_clear_index(t) ==
    /\ tasks[t].pc = "start"
    /\ tasks[t].op = "clear"
    /\ index' = IndexFlatL2(dimension)
    /\ co_goto(t, "index_reset")
    /\ UNCHANGED <<dimension, chunks, embeddings, _model, indexFile, chunksFile,
                   saved, whole, op, arg, embedded, ret, hits, results, main_pc>>

co_clear_chunks(t) ==
    /\ tasks[t].pc = "index_reset"
    /\ chunks' = <<>>
    /\ co_goto(t, "chunks_reset")
    /\ UNCHANGED <<dimension, index, embeddings, _model, indexFile, chunksFile,
                   saved, whole, op, arg, embedded, ret, hits, results, main_pc>>

co_clear_embeddings(t) ==
    /\ tasks[t].pc = "chunks_reset"
    /\ embeddings' = <<>>
    /\ op' = "clear"
    /\ arg' = NoArgs
    /\ embedded' = "none"
    /\ ret' = "None"
    /\ NoSearch
    /\ co_return(t)
    /\ UNCHANGED <<dimension, index, chunks, _model, indexFile, chunksFile,
                   saved, whole>>

CoEmbed ==
    \E t \in TaskIds : \E e \in EmbedOutcomes(_model) :
        Runnable(t) /\ co_embed(t, e) /\ UNCHANGED <<appVars, loopFrame>>

CoAddIndex ==
    \E t \in TaskIds : Runnable(t) /\ co_add_index(t) /\ UNCHANGED <<appVars, loopFrame>>

CoAddExtend ==
    \E t \in TaskIds : Runnable(t) /\ co_add_extend(t) /\ UNCHANGED <<appVars, loopFrame>>

CoSearch ==
    \E t \in TaskIds :
        /\ Runnable(t)
        /\ \E z \in (IF tasks[t].e = "ok" /\ Min(tasks[t].top_k, Len(chunks)) <= 0
                       THEN ZeroKOutcomes ELSE {"empty"}) : co_search(t, z)
        /\ UNCHANGED <<appVars, loopFrame>>

CoClearIndex ==
    \E t \in TaskIds : Runnable(t) /\ co_clear_index(t) /\ UNCHANGED <<appVars, loopFrame>>

CoClearChunks ==
    \E t \in TaskIds : Runnable(t) /\ co_clear_chunks(t) /\ UNCHANGED <<appVars, loopFrame>>

CoClearEmbeddings ==
    \E t \in TaskIds :
        Runnable(t) /\ co_clear_embeddings(t) /\ UNCHANGED <<appVars, loopFrame>>

\* a step of one of the calls in flight
CoStep ==
    \/ CoEmbed \/ CoAddIndex \/ CoAddExtend \/ CoSearch
    \/ CoClearIndex \/ CoClearChunks \/ CoClearEmbeddings

(***************************************************************************)
(* main's loop over the user's inputs, and a host running several store    *)
(* calls at once.                                                          *)
(***************************************************************************)
\* main creating a task for the handler and reading the next input
after_dispatch_detached == "prompt"

\* where main is once a handler has called the store: "result = await
\* handle_user_input(user_input)", "response = await get_response(...)", and
\* LoadCommand.execute's "await vector_store.add_texts(chunks)"
after_dispatch == "awaiting"

\* the store call the handler of an input of kind k makes first; none when
\* the handler makes no store call
StoreCalls(k) ==
    IF k = "load"
      THEN {Call("add_texts", process_file(f).chunks, "", 0) :
                f \in {g \in Paths : ~process_file(g).none}}
    ELSE IF k = "chat"
      THEN (IF retrieves(index)
              THEN {Call("search", <<>>, q, DefaultTopK) : q \in Prompts}
              ELSE {})
    ELSE {Call("clear", <<>>, "", 0)}

\* what the loop's steps leave alone in the chat process
appRest == <<cached, path, processed, outcome, events, relevant_texts>>

\* main reads an input whose handler calls the store with c
read_input(k, c) ==
    /\ running
    /\ main_pc = "prompt"
    /\ AtSuspension
    /\ \E t \in TaskIds \ DOMAIN tasks :
          /\ \A u \in TaskIds \ DOMAIN tasks : t <= u
          /\ tasks' = Spawned(t, c)
    /\ main_pc' = after_dispatch
    /\ command' = k
    /\ UNCHANGED <<storeVars, current, running, appRest>>

\* main reads an input whose handler returns without a store call: /load of
\* a file that cannot be read, a chat request while the index is empty
read_input_no_call(k) ==
    /\ running
    /\ main_pc = "prompt"
    /\ AtSuspension
    /\ command' = k
    /\ UNCHANGED <<storeVars, loopVars, running, appRest>>

\* the handler after its store call returned: LoadCommand.execute saves when
\* add_texts gave True; the knowledge ClearCommand.execute saves and returns
\* True, which handle_user_input awaits (TypeError); an exception of the call
\* leaves main
main_resume ==
    /\ main_pc = "resumed"
    /\ main_pc' = "prompt"
    /\ running' = (command # "clearknowledge" /\ ret # "raise")
    /\ IF command = "clearknowledge" \/ (command = "load" /\ ret = "True")
         THEN save
         ELSE UNCHANGED storeVars
    /\ UNCHANGED <<tasks, current, command, appRest>>

\* the process ending on the exception and the next one starting
loop_restart ==
    /\ ~running
    /\ NewStore
    /\ running' = TRUE
    /\ tasks' = <<>>
    /\ current' = 0
    /\ main_pc' = "prompt"
    /\ command' = "none"
    /\ UNCHANGED <<indexFile, chunksFile, saved, whole, appRest>>

ReadInput ==
    \E k \in {"load", "chat", "clearknowledge"} : \E c \in StoreCalls(k) :
        \* the store is driven to MaxChunks entries at most
        /\ Len(chunks) + Len(c.batch) <= MaxChunks
        /\ read_input(k, c)
        /\ UNCHANGED loopFrame

ReadInputNoCall ==
    \E k \in {"load", "chat"} :
        /\ k = "chat" => ~retrieves(index)
        /\ read_input_no_call(k)
        /\ UNCHANGED loopFrame

MainResume == main_resume /\ UNCHANGED loopFrame

LoopRestart == loop_restart /\ UNCHANGED loopFrame

InitLoop == InitApp

NextLoop == ReadInput \/ ReadInputNoCall \/ CoStep \/ MainResume \/ LoopRestart

SpecLoop == InitLoop /\ [][NextLoop]_vars

\* the calls a host runs at once on one new store, as with asyncio.gather
InitTasks ==
    /\ StoreIdle
    /\ SplitIdle
    /\ AppIdle
    /\ SideIdle
    /\ \E n \in 1..MaxTasks : tasks \in [1..n -> Calls]
    /\ current = 0
    /\ main_pc = "prompt"

SpecTasks == InitTasks /\ [][CoStep]_vars

(***************************************************************************)
(* Properties of the event loop.                                           *)
(***************************************************************************)
\* C22: main serializes the access to the shared vector store: at most one
\* add_texts, search or clear is in flight at any time, and main reads the
\* next input only when none is
C22_OneCallInFlight ==
    /\ Cardinality(DOMAIN tasks) <= 1
    /\ main_pc = "prompt" => tasks = <<>>

\* main awaits an add_texts suspended at its await, on a store that holds a
\* chunk of an earlier /load
C22_Witness ==
    /\ main_pc = "awaiting"
    /\ Len(chunks) > 0
    /\ \E t \in DOMAIN tasks :
          tasks[t].op = "add_texts" /\ tasks[t].pc = "await_embeddings"

\* C30: under any interleaving of add_texts, search and clear coroutines on
\* one VectorStore that switch only at their await points, the index holds
\* as many vectors as there are chunks at every suspension point: add_texts
\* inserts into the index and extends the chunk list, and clear resets both,
\* with no suspension point in between
C30_ConsistentAtSuspension == AtSuspension => ntotal(index) = Len(chunks)

\* an add_texts is suspended at its await after another call's add_texts
\* went through
C30_Witness ==
    /\ current \in DOMAIN tasks
    /\ tasks[current].op = "add_texts"
    /\ tasks[current].pc = "await_embeddings"
    /\ ntotal(index) > 0

(***************************************************************************)
(* The CacheManager's specification.                                       *)
(***************************************************************************)
InitCache ==
    /\ StoreIdle
    /\ SplitIdle
    /\ AppIdle
    /\ LoopIdle
    /\ HistoryIdle
    /\ FactoryIdle
    /\ \E life \in Ttls : NewCache(life)

CacheSet ==
    \E key \in CacheKeys : \E value \in CacheValues :
        cache_set(key, value) /\ UNCHANGED cacheFrame

CacheGet == \E key \in CacheKeys : cache_get(key) /\ UNCHANGED cacheFrame

CacheRemove == \E key \in CacheKeys : cache_remove(key) /\ UNCHANGED cacheFrame

CacheClear == cache_clear /\ UNCHANGED cacheFrame

Tick == now < MaxTime /\ tick /\ UNCHANGED cacheFrame

NextCache == CacheSet \/ CacheGet \/ CacheRemove \/ CacheClear \/ Tick

SpecCache == InitCache /\ [][NextCache]_vars

(***************************************************************************)
(* Properties of the CacheManager.                                         *)
(***************************************************************************)
\* C23: get(k) returns the value of the most recent set(k, v) when no
\* remove(k) or clear() has happened since and no more than ttl seconds have
\* gone by since that set; in every other case it returns None, and after a
\* get that found an expired entry the entry is no longer in the cache
C23_GetReturnsLiveValue ==
    (cache_op = "get" /\ cache_key.str) =>
        LET k == cache_key.name
        IN  /\ cache_ret =
                 IF k \in DOMAIN last_set
                   THEN (IF now - last_set[k].at <= ttl
                           THEN Returned(last_set[k].value)
                           ELSE Returned(None))
                   ELSE Returned(None)
            /\ cache_ret = Returned(None) => k \notin DOMAIN _cache

\* a get exactly ttl seconds after the set returns the value
C23_Witness ==
    /\ cache_op = "get"
    /\ cache_key.str
    /\ ttl > 0
    /\ cache_key.name \in DOMAIN last_set
    /\ now - last_set[cache_key.name].at = ttl
    /\ cache_ret = Returned(Some("v1"))

\* C24: set with the value None and a string key raises ValueError, set and
\* get with a key that is not a string raise TypeError, and these calls leave
\* the cache contents as they were
C24_RejectedCallsChangeNothing ==
    [][/\ (cache_op' = "set" /\ cache_key'.str /\ cache_value'.none) =>
              (cache_ret' = Raised("ValueError") /\ _cache' = _cache)
       /\ (cache_op' \in {"set", "get"} /\ ~cache_key'.str) =>
              (cache_ret' = Raised("TypeError") /\ _cache' = _cache)]_vars

\* set("k1", None) was refused on a cache that holds an entry
C24_Witness ==
    /\ cache_op = "set"
    /\ cache_key = StrKey("k1")
    /\ cache_value = None
    /\ cache_ret = Raised("ValueError")
    /\ "k1" \in DOMAIN _cache

(***************************************************************************)
(* The ChatHistory's specification.                                        *)
(***************************************************************************)
InitHistory ==
    /\ StoreIdle
    /\ SplitIdle
    /\ AppIdle
    /\ LoopIdle
    /\ CacheIdle
    /\ HistoryIdle
    /\ FactoryIdle

AddInteraction ==
    /\ Len(history) < MaxHistory
    /\ \E x \in Interactions :
          add_interaction(x.user, x.assistant) /\ UNCHANGED historyFrame

GetRecentHistory ==
    \E n \in 0..(MaxHistory + 1) : get_recent_history(n) /\ UNCHANGED historyFrame

ClearHistory == clear_history /\ UNCHANGED historyFrame

HistoryRestart == history_restart /\ UNCHANGED historyFrame

NextHistory == AddInteraction \/ GetRecentHistory \/ ClearHistory \/ HistoryRestart

SpecHistory == InitHistory /\ [][NextHistory]_vars

(***************************************************************************)
(* Properties of the ChatHistory.                                          *)
(***************************************************************************)
\* C25: get_recent_history(n) returns, for every n >= 0 and every history,
\* exactly the last min(n, len(history)) interactions in insertion order (and
\* so the empty list after clear_history)
C25_RecentIsLastN ==
    (hist_op = "get_recent_history" /\ hist_n >= 0) =>
        /\ Len(hist_ret) = Min(hist_n, Len(history))
        /\ hist_ret = SubSeq(history, Len(history) - Len(hist_ret) + 1, Len(history))

(***************************************************************************)
(* The CommandFactory's specification.                                     *)
(***************************************************************************)
InitFactory ==
    /\ StoreIdle
    /\ SplitIdle
    /\ AppIdle
    /\ LoopIdle
    /\ CacheIdle
    /\ HistoryIdle
    /\ FactoryIdle

GetCommand ==
    \E line \in InputLines : call_get_command(line) /\ UNCHANGED factoryFrame

HandleUserInput ==
    \E line \in InputLines : handle_user_input(line) /\ UNCHANGED factoryFrame

NextFactory == GetCommand \/ HandleUserInput

SpecFactory == InitFactory /\ [][NextFactory]_vars

(***************************************************************************)
(* Properties of the CommandFactory.                                       *)
(***************************************************************************)
\* the line starts with the slash and the word after it is a registered name
NamesCommand(line) ==
    /\ line # <<>>
    /\ Head(line) = "/"
    /\ Len(line) >= 2
    /\ line[2] \in DOMAIN _commands
    /\ (Len(line) >= 3 => line[3] = " ")

\* C26: for every input line get_command returns an instance of the command
\* registered under the line's command name, or None when the line names no
\* registered command; it never raises, so handle_user_input returns None
\* for the lines that are no commands
C26_GetCommandNeverRaises ==
    fac_op \in {"get_command", "handle_user_input"} =>
        /\ fac_ret.raised = "no"
        /\ NamesCommand(fac_input) => fac_ret.value = _commands[fac_input[2]]
        /\ (IF fac_input = <<>> THEN TRUE ELSE Head(fac_input) # "/") =>
              /\ fac_ret.value = "None"
              /\ fac_op = "handle_user_input" => fac_handled = "None"

(***************************************************************************)
(* Properties of the search results and of the snapshot.                   *)
(***************************************************************************)
\* the hits that name a stored vector which has a chunk
StoredHits ==
    SelectSeq(hits, LAMBDA h : h[2] >= 0 /\ h[2] < ntotal(index) /\ h[2] < Len(chunks))

\* C27: every SearchResult of a search corresponds to a stored vector: its
\* hit's idx satisfies 0 <= idx < index.ntotal, its content and metadata are
\* those of chunks[idx], and none is built from the missing-hit label -1
C27_ResultsFromStoredVectors ==
    (op = "search" /\ ret = "list") =>
        /\ Len(results) = Len(StoredHits)
        /\ \A j \in 1..Len(results) :
              /\ results[j].content = chunks[StoredHits[j][2] + 1].content
              /\ results[j].metadata = chunks[StoredHits[j][2] + 1].metadata

\* C28: save updates the snapshot as one unit: at no point, an interruption
\* between the writing of the two files included, does the directory hold a
\* readable index file and a readable chunk-record file with different
\* numbers of entries
C28_SnapshotFilesAgree ==
    (indexFile.exists /\ indexFile.valid /\ chunksFile.exists /\ chunksFile.valid) =>
        indexFile.data.ntotal = Len(chunksFile.data)

(***************************************************************************)
(* Properties of split_text outside the valid configurations.              *)
(***************************************************************************)
\* C29: the processor takes chunk_size and chunk_overlap as they are given;
\* with chunk_overlap >= chunk_size and at least one token, the window start
\* never increases from one turn of the loop to the next, stays below
\* len(tokens), and the call never reaches its return
C29_NoProgressNeverReturns ==
    [][(pc' # "idle" /\ chunk_overlap' >= chunk_size' /\ tokens' # <<>>) =>
          /\ pc' = "loop"
          /\ i' < Len(tokens')
          /\ Len(spans') = Len(spans) + 1 => i' <= i]_vars

\* a run with the overlap above the chunk size, followed for MaxWindows
\* windows: the start has gone below 0 and the loop goes on
C29_Witness ==
    /\ pc = "loop"
    /\ chunk_overlap > chunk_size
    /\ tokens # <<>>
    /\ Len(out) = MaxWindows
    /\ i < 0
====
